---- MODULE Spec2Model ----
(***************************************************************************)
(* Model of the mps_explaineo pipeline:                                    *)
(*   explanation_method/decision_method.py  (DecisionReference.id,          *)
(*                                           DecisionNode.ref,              *)
(*                                           DecisionModel.parse_concepts,  *)
(*                                           DecisionModel.parse_nodes,     *)
(*                                           DecisionModel.create_node)     *)
(*   mps_explaineo/knowledge_base.py        (KnowledgeBaseModel,            *)
(*                                           KnowledgeBase,                 *)
(*                                           LegalKnowledgeBase)            *)
(* Strings are sequences of one-character strings, so that the regular      *)
(* expressions of the source are computed character by character.          *)
(***************************************************************************)
EXTENDS Integers, Sequences, FiniteSets, Bags, TLC

VARIABLES
    pc,       \* position inside LegalKnowledgeBase.from_decision_method
    dm,       \* the LegalDecisionMethod handed in (the parsed model trees)
    props,    \* DecisionNode.properties of every node of dm, as (name, value)
    kb,       \* legal_kb.models: per model the KnowledgeBaseModel built so far
    graph,    \* legal_kb.graph: the content of the external graph store
    out,      \* what create_references has printed so far (stdout)
    calls,    \* the print_missed_references argument of every call of
              \* create_references so far, in order
    raw,      \* DecisionReference.to of the reference under normalisation
    key,      \* the value DecisionReference.id returned for raw
    meta,     \* the metamodel section (registry) of the .mps file read
    library,  \* DecisionModel.concepts: what parse_concepts returned
    xml,      \* the instance elements of the .mps file read, and the
              \* root_concept the DecisionModel was constructed with
    parsed,   \* DecisionModel.nodes: what parse_nodes returned
    ret       \* the outcome of the last read of DecisionNode.ref

vars == <<pc, dm, props, kb, graph, out, calls, raw, key, meta, library, xml, parsed, ret>>

-----------------------------------------------------------------------------
(* Bounds of the model *)

MaxNodes == 3
MaxRefs == 2
MaxRuns == 2
MaxLen == 5
MaxConcepts == 2
\* slot declarations in one registry
MaxSlots == 2
MaxElems == 3
MaxProps == 2
MaxItems == 2

(* LegalKnowledgeBase.from_decision_method builds four models *)
NumModels == 4

\* the value standing for Python's None where a node is looked up
None == [obj |-> 0, alef_id |-> <<>>, attrs |-> <<>>, labels |-> {}]

-----------------------------------------------------------------------------
(* Strings *)

Colon == ":"

Letters == <<"a", "b", "c", "d", "e", "f">>

\* the stable identifier (xml attribute id) of the n-th instance element
NodeId(n) == <<Letters[n]>>

\* an identifier no instance element of the unit of work carries
MissingId == <<"x", "9">>

\* what Element.get returns for an attribute the element does not carry
\* (Python's None), for index attributes and for identifier attributes
NoAttr == "<absent>"

NoId == <<"<absent>">>

\* namespace prefixes a raw target identifier may carry
Prefixes == {<<>>, <<"n", Colon>>, <<"n", Colon, "m", Colon>>}

RECURSIVE FirstColon(_, _)
\* position of the first ":" of s at or after i, 0 when there is none
FirstColon(s, i) ==
    IF i > Len(s) THEN 0
    ELSE IF s[i] = Colon THEN i
    ELSE FirstColon(s, i + 1)

\* variant: the prefix is stripped but its colon is kept
IdKeepColon(to) ==
    LET c == FirstColon(to, 1)
    IN  IF c = 0 THEN to ELSE SubSeq(to, c, Len(to))

\* position of the last ":" of s at or before i, 0 when there is none
RECURSIVE LastColon(_, _)
LastColon(s, i) ==
    IF i < 1 THEN 0
    ELSE IF s[i] = Colon THEN i
    ELSE LastColon(s, i - 1)

\* variant: a greedy pattern (r'^.*:'), which strips up to the last colon
IdStripLast(to) ==
    LET c == LastColon(to, Len(to))
    IN  IF c = 0 THEN to ELSE SubSeq(to, c + 1, Len(to))

\* DecisionReference.id: re.sub(r'^[^:]*:', '', self.to). The pattern is
\* anchored at the start and [^:]* cannot cross a colon, so it matches the
\* text up to and including the first colon, once.
DecisionReferenceId(to) ==
    LET c == FirstColon(to, 1)
    IN  IF c = 0 THEN to ELSE SubSeq(to, c + 1, Len(to))

\* re.sub raises TypeError when self.to is None, the target of a reference
\* whose <ref> element carries neither the attribute node nor the attribute to
IdRaises(to) == to = NoId

-----------------------------------------------------------------------------
(* The parsed decision method: dm.n instance elements 1..dm.n, element i    *)
(* in model dm.model[i], child of dm.parent[i] (0: a root of its model),    *)
(* carrying the references dm.refs[i] (each the raw attribute 'to', NoId    *)
(* when the reference has none) and the properties props[i] (each a name    *)
(* and a value).                                                            *)
(* Elements are numbered in document order.                                 *)

Models == 1..NumModels

DmNodes == 1..dm.n

RECURSIVE Ascending(_)
\* the elements of a set of numbers as a sequence in ascending order
Ascending(S) ==
    IF S = {} THEN <<>>
    ELSE LET lo == CHOOSE x \in S : \A y \in S : x <= y
         IN  <<lo>> \o Ascending(S \ {lo})

\* decision_model.nodes of model m: its root DecisionNodes in document order
ModelRoots(m) == Ascending({i \in DmNodes : dm.model[i] = m /\ dm.parent[i] = 0})

\* dm_node.children in document order
Children(i) == Ascending({j \in DmNodes : dm.parent[j] = i})

\* every DecisionNode of model m (roots and descendants)
ModelNodes(m) == {i \in DmNodes : dm.model[i] = m}

\* the raw targets the references of a unit of k elements may carry: an
\* identifier with or without prefix, or none
RawTargets(k) ==
    {p \o t : p \in Prefixes, t \in {NodeId(i) : i \in 1..k} \cup {MissingId}} \cup {NoId}

RefSeqs(k) == UNION {[1..r -> (1..k) \X RawTargets(k)] : r \in 0..MaxRefs}

RECURSIVE RefsOf(_, _)
\* the raw targets of the pairs of rs whose source is element i, in order
RefsOf(rs, i) ==
    IF rs = <<>> THEN <<>>
    ELSE (IF Head(rs)[1] = i THEN <<Head(rs)[2]>> ELSE <<>>) \o RefsOf(Tail(rs), i)

Forests(k) ==
    {f \in [model : [1..k -> Models], parent : [1..k -> 0..k]] :
        /\ \A i \in 1..k : f.parent[i] < i
        /\ \A i \in 1..k : f.parent[i] # 0 => f.model[f.parent[i]] = f.model[i]
        /\ \A i, j \in 1..k : i < j => f.model[i] <= f.model[j]
        /\ \A i \in 1..k : f.model[i] <= (IF i = 1 THEN 1 ELSE f.model[i - 1] + 1)}

\* the unit of work made of forest f carrying the references rs
DecisionMethod(k, f, rs) ==
    [n |-> k, model |-> f.model, parent |-> f.parent,
     refs |-> [i \in 1..k |-> RefsOf(rs, i)]]

-----------------------------------------------------------------------------
(* KnowledgeBaseModel *)

\* cls(decision_model, Subgraph(), []) before any node is created. The
\* field failed tells that an exception has ended the construction: what the
\* statements after the raising one would have done is not done.
EmptyKbModel ==
    [built |-> FALSE, nodes |-> {}, rels |-> {}, reference_list |-> <<>>,
     root_nodes |-> <<>>, failed |-> FALSE]

\* dict[k] = v
Put(f, k, v) == [x \in DOMAIN f \cup {k} |-> IF x = k THEN v ELSE f[x]]

EmptyDict == [x \in {} |-> 0]

\* dm_node.role: 'root', or the short name of the child slot the node sits in
RoleRoot == <<"r", "o", "o", "t">>

RoleChild == <<"q">>

DmRole(i) == IF dm.parent[i] = 0 THEN RoleRoot ELSE RoleChild

\* the positions of the properties of node i that are named "name"
NamePositions(i) == {x \in 1..Len(props[i]) : props[i][x].name = "name"}

\* dm_node.name: the value of the first property named 'name'
DmName(i) == props[i][CHOOSE x \in NamePositions(i) : \A y \in NamePositions(i) : x <= y].value

\* the value of a property whose xml element has no attribute value (None)
NoValue == <<"<absent>">>

\* kb_node[k] = v: a py2neo Node drops the property when v is None
SetItem(attrs, k, v) ==
    IF v = NoValue THEN [x \in DOMAIN attrs \ {k} |-> attrs[x]] ELSE Put(attrs, k, v)

RECURSIVE SetProps(_, _)
\* for alef_prop in dm_node.properties: kb_node[alef_prop.name] = alef_prop.value
SetProps(attrs, ps) ==
    IF ps = <<>> THEN attrs
    ELSE SetProps(SetItem(attrs, Head(ps).name, Head(ps).value), Tail(ps))

\* variant: the properties of the node are not copied
NodeAttrsNoProps(i) ==
    LET a1 == SetItem(EmptyDict, "alef_id", NodeId(i))
        a2 == SetItem(a1, "role", DmRole(i))
    IN  IF NamePositions(i) = {} THEN a2 ELSE SetItem(a2, "name", DmName(i))

\* the properties of kb_node after lines 97 to 103: alef_id, role and name
\* (a py2neo Node does not keep a property set to None), then one
\* assignment per property of the node, in order
NodeAttrs(i) ==
    LET a1 == SetItem(EmptyDict, "alef_id", NodeId(i))
        a2 == SetItem(a1, "role", DmRole(i))
        a3 == IF NamePositions(i) = {} THEN a2 ELSE SetItem(a2, "name", DmName(i))
    IN  SetProps(a3, props[i])

\* decision_model.model_name of the four models from_decision_name creates
ModelNames == <<"gegevens", "regels", "services", "tests">>

\* dm_node.concept, the short name of the concept of the node; the nodes of
\* a unit are instances of the concept l.A
DmConcept(i) == "A"

\* Node('KBNode'), add_label(dm_node.concept), add_label(model_name)
NodeLabels(i) == {"KBNode", DmConcept(i), ModelNames[dm.model[i]]}

\* the py2neo Node create_node builds for element i. An unbound Node is
\* equal only to itself, which the field obj stands for; alef_id is the
\* value of its property alef_id, attrs all its properties, labels its
\* labels.
KbNode(i) ==
    [obj |-> i,
     alef_id |-> IF "alef_id" \in DOMAIN NodeAttrs(i) THEN NodeAttrs(i)["alef_id"] ELSE NoValue,
     attrs |-> NodeAttrs(i),
     labels |-> NodeLabels(i)]

\* get_node_by_property('alef_id', v) over subgraph.nodes: the first node
\* carrying that value, None when there is none. Identifiers are unique
\* within a model, so at most one node matches.
GetNodeByProperty(nodes, v) ==
    LET hits == {x \in nodes : x.alef_id = v}
    IN  IF hits = {} THEN None ELSE CHOOSE x \in hits : TRUE

\* variant: a resolved reference is put on the pending list as well
RefEdgeAndPending(m, src, to) ==
    IF m.failed \/ IdRaises(to) THEN [m EXCEPT !.failed = TRUE]
    ELSE
    LET ref_node == GetNodeByProperty(m.nodes, DecisionReferenceId(to))
    IN  IF ref_node = None
        THEN [m EXCEPT !.reference_list = Append(@, <<src, to>>)]
        ELSE [m EXCEPT !.rels = @ \cup {<<"references_to", KbNode(src), ref_node>>},
                       !.reference_list = Append(@, <<src, to>>)]

\* variant: a reference without target in the model is not recorded
RefNoPending(m, src, to) ==
    IF m.failed \/ IdRaises(to) THEN [m EXCEPT !.failed = TRUE]
    ELSE
    LET ref_node == GetNodeByProperty(m.nodes, DecisionReferenceId(to))
    IN  IF ref_node = None
        THEN m
        ELSE [m EXCEPT !.rels = @ \cup {<<"references_to", KbNode(src), ref_node>>}]

\* the body of the loop over dm_node.references; dm_ref.id raises for a
\* reference without target
CreateRef(m, src, to) ==
    IF m.failed \/ IdRaises(to) THEN [m EXCEPT !.failed = TRUE]
    ELSE
    LET ref_node == GetNodeByProperty(m.nodes, DecisionReferenceId(to))
    IN  IF ref_node = None
        THEN [m EXCEPT !.reference_list = Append(@, <<src, to>>)]
        ELSE [m EXCEPT !.rels = @ \cup {<<"references_to", KbNode(src), ref_node>>}]

RECURSIVE CreateRefs(_, _, _)
CreateRefs(m, src, tos) ==
    IF tos = <<>> THEN m
    ELSE CreateRefs(CreateRef(m, src, Head(tos)), src, Tail(tos))

\* variant: the child is built but no has_child relationship is added
AddChildNoEdge(m, parent, child) == m

\* rel = has_child(kb_node, kb_child); subgraph | kb_node | rel
AddChild(m, parent, child) ==
    IF m.failed THEN m
    ELSE [m EXCEPT !.nodes = @ \cup {KbNode(parent)},
                   !.rels = @ \cup {<<"has_child", KbNode(parent), KbNode(child)>>}]

RECURSIVE CreateNode(_, _)
RECURSIVE CreateChildren(_, _, _)
\* the loop over dm_node.children
CreateChildren(m, i, cs) ==
    IF cs = <<>> THEN m
    ELSE CreateChildren(AddChild(CreateNode(m, Head(cs)), i, Head(cs)), i, Tail(cs))

\* variant: the references of a node are processed before its children
CreateNodeRefsFirst(m, i) ==
    LET m1 == IF m.failed THEN m ELSE [m EXCEPT !.nodes = @ \cup {KbNode(i)}]
        m2 == CreateRefs(m1, i, dm.refs[i])
    IN  CreateChildren(m2, i, Children(i))

\* KnowledgeBaseModel.create_node(dm_node): the node, then its subtree, then
\* its references
CreateNode(m, i) ==
    LET m1 == IF m.failed THEN m ELSE [m EXCEPT !.nodes = @ \cup {KbNode(i)}]
        m2 == CreateChildren(m1, i, Children(i))
    IN  CreateRefs(m2, i, dm.refs[i])

RECURSIVE CreateRoots(_, _)
CreateRoots(m, rs) ==
    IF rs = <<>> THEN m
    ELSE CreateRoots(CreateNode(m, Head(rs)), Tail(rs))

\* KnowledgeBaseModel.from_decision_model(decision_model)
FromDecisionModel(mi) ==
    LET m == CreateRoots(EmptyKbModel, ModelRoots(mi))
    IN  IF m.failed THEN m
        ELSE [m EXCEPT !.built = TRUE,
                       !.root_nodes = [x \in 1..Len(ModelRoots(mi)) |-> KbNode(ModelRoots(mi)[x])]]

-----------------------------------------------------------------------------
(* The graph store (py2neo Graph): nodes keyed by (KBNode, alef_id), the    *)
(* labels and properties of every node (data), and a bag of relationships   *)
(* <<type, start key, end key>>.                                            *)

\* a store that holds the nodes with the keys pre, left by an earlier run,
\* and no relationship
StoreWith(pre) ==
    [nodes |-> pre,
     rels |-> EmptyBag,
     data |-> [k \in pre |-> [labels |-> {"KBNode"}, attrs |-> Put(EmptyDict, "alef_id", k)]]]

EmptyStore == StoreWith({})

\* the labels and properties the node with key k has after the merge of the
\* nodes xs: MERGE on (KBNode, alef_id), then the labels and properties of
\* the merged node are set on it
MergeData(g, xs, k) ==
    LET new == {x \in xs : x.alef_id = k}
        old == IF k \in g.nodes THEN g.data[k] ELSE [labels |-> {}, attrs |-> EmptyDict]
    IN  IF new = {} THEN old
        ELSE LET x == CHOOSE y \in new : TRUE
             IN  [labels |-> old.labels \cup x.labels,
                  attrs |-> [a \in DOMAIN old.attrs \cup DOMAIN x.attrs |->
                                IF a \in DOMAIN x.attrs THEN x.attrs[a] ELSE old.attrs[a]]]

StoreEdge(r) == <<r[1], r[2].alef_id, r[3].alef_id>>

\* variant: CREATE instead of MERGE, a new relationship on every call
CreateRels(rels, es) == rels (+) SetToBag(es)

\* MERGE (a)-[:TYPE]->(b): a relationship of that type between those end
\* points is created only when the store has none
MergeRels(rels, es) == rels (+) SetToBag({e \in es : ~BagIn(e, rels)})

\* graph.merge(subgraph, "KBNode", "alef_id") for the subgraph of model m
MergeInto(g, m) ==
    [nodes |-> g.nodes \cup {x.alef_id : x \in m.nodes},
     rels |-> MergeRels(g.rels, {StoreEdge(r) : r \in m.rels}),
     data |-> [k \in g.nodes \cup {x.alef_id : x \in m.nodes} |-> MergeData(g, m.nodes, k)]]

\* graph.merge(model.subgraph, "KBNode", "alef_id")
MergeSubgraph(g, mi) == MergeInto(g, kb[mi])

\* variant: a model is merged into the store as soon as it is built
MergedWhenBuilt(g, m) == MergeInto(g, m)

\* lines 207 to 210 build the four models in memory: the store is written
\* on line 213 only
KeptInMemory(g, m) == g

RECURSIVE MergeModels(_, _)
\* [legal_kb.graph.merge(model.subgraph, ...) for model in legal_kb.models]
MergeModels(g, mi) ==
    IF mi > NumModels THEN g
    ELSE MergeModels(MergeSubgraph(g, mi), mi + 1)

\* graph.nodes.match("KBNode", alef_id=v).first()
MatchFirst(g, v) == IF v \in g.nodes THEN v ELSE <<>>

\* the note create_references prints for a missed reference
Note(src, to) == [source |-> NodeId(src), target |-> DecisionReferenceId(to)]

\* variant: the note names the raw target instead of the normalized one
ResolveRawNote(st, p, print_missed_references) ==
    LET from_kb_node == MatchFirst(st.graph, NodeId(p[1]))
        to_kb_node == MatchFirst(st.graph, DecisionReferenceId(p[2]))
    IN  IF from_kb_node # <<>> /\ to_kb_node # <<>>
        THEN [st EXCEPT !.graph.rels =
                 MergeRels(@, {<<"references_to", from_kb_node, to_kb_node>>})]
        ELSE IF print_missed_references
             THEN [st EXCEPT !.out = Append(@, [source |-> NodeId(p[1]), target |-> p[2]])]
             ELSE st

\* variant: a missed reference is never printed
ResolveNeverPrint(st, p, print_missed_references) ==
    LET from_kb_node == MatchFirst(st.graph, NodeId(p[1]))
        to_kb_node == MatchFirst(st.graph, DecisionReferenceId(p[2]))
    IN  IF from_kb_node # <<>> /\ to_kb_node # <<>>
        THEN [st EXCEPT !.graph.rels =
                 MergeRels(@, {<<"references_to", from_kb_node, to_kb_node>>})]
        ELSE st

\* variant: the relationship is created from the target to the source
ResolveOneReversed(st, p, print_missed_references) ==
    LET from_kb_node == MatchFirst(st.graph, NodeId(p[1]))
        to_kb_node == MatchFirst(st.graph, DecisionReferenceId(p[2]))
    IN  IF from_kb_node # <<>> /\ to_kb_node # <<>>
        THEN [st EXCEPT !.graph.rels =
                 MergeRels(@, {<<"references_to", to_kb_node, from_kb_node>>})]
        ELSE IF print_missed_references
             THEN [st EXCEPT !.out = Append(@, Note(p[1], p[2]))]
             ELSE st

\* variant: a target that is not in the store is created there as a node
\* with that key, and the relationship is merged to it
ResolveOneCreateTarget(st, p, print_missed_references) ==
    LET from_kb_node == MatchFirst(st.graph, NodeId(p[1]))
        to_key == DecisionReferenceId(p[2])
    IN  IF from_kb_node # <<>>
        THEN [st EXCEPT !.graph =
                 [nodes |-> @.nodes \cup {to_key},
                  rels |-> MergeRels(@.rels, {<<"references_to", from_kb_node, to_key>>}),
                  data |-> [k \in @.nodes \cup {to_key} |->
                               IF k \in @.nodes THEN @.data[k]
                               ELSE [labels |-> {"KBNode"},
                                     attrs |-> Put(EmptyDict, "alef_id", k)]]]]
        ELSE IF print_missed_references
             THEN [st EXCEPT !.out = Append(@, Note(p[1], p[2]))]
             ELSE st

\* the body of the inner loop of create_references for one pending pair
ResolveOne(st, p, print_missed_references) ==
    LET from_kb_node == MatchFirst(st.graph, NodeId(p[1]))
        to_kb_node == MatchFirst(st.graph, DecisionReferenceId(p[2]))
    IN  IF from_kb_node # <<>> /\ to_kb_node # <<>>
        THEN [st EXCEPT !.graph.rels =
                 MergeRels(@, {<<"references_to", from_kb_node, to_kb_node>>})]
        ELSE IF print_missed_references
             THEN [st EXCEPT !.out = Append(@, Note(p[1], p[2]))]
             ELSE st

RECURSIVE ResolveList(_, _, _)
ResolveList(st, ps, flag) ==
    IF ps = <<>> THEN st
    ELSE ResolveList(ResolveOne(st, Head(ps), flag), Tail(ps), flag)

\* variant: pending references are processed by the first call only
ResolveModelsOnce(st, mi, flag) ==
    IF calls # <<>> THEN st
    ELSE ResolveList(ResolveList(ResolveList(ResolveList(st,
             kb[1].reference_list, flag), kb[2].reference_list, flag),
             kb[3].reference_list, flag), kb[4].reference_list, flag)

RECURSIVE ResolveModels(_, _, _)
\* for model in self.models: for (from, to) in model.reference_list: ...
ResolveModels(st, mi, flag) ==
    IF mi > NumModels THEN st
    ELSE ResolveModels(ResolveList(st, kb[mi].reference_list, flag), mi + 1, flag)

-----------------------------------------------------------------------------
(* The Concept Index: DecisionModel.parse_concepts                          *)
(* meta is the registry of the file: a sequence of <language> elements,     *)
(* each a sequence of <concept> elements [name, id, index, slots], each     *)
(* slot a <property>, <reference> or <child> element [kind, name, id,       *)
(* index].                                                                  *)

\* the characters \w matches among those the names of the model are made of
WordChars == {"l", "m", "A", "B", "_"}

RECURSIVE WordRunStart(_, _)
\* where the run of word characters that ends at position i of s starts
WordRunStart(s, i) ==
    IF i >= 1 /\ s[i] \in WordChars THEN WordRunStart(s, i - 1) ELSE i + 1

\* re.search(r'\w+$', s): the longest run of word characters at the end of
\* s; the empty sequence stands for no match (search returns None)
LastWord(s) == SubSeq(s, WordRunStart(s, Len(s)), Len(s))

\* elem_type in ['property', 'reference', 'child']
Kinds == <<"property", "reference", "child">>

QualifiedNames ==
    {<<"l", ".", "A">>, <<"m", ".", "A">>, <<"l", ".", "B">>, <<"l", ".">>}

ConceptIds == {"1", "2"}

ConceptIndexes == {"i", "j"}

\* the names slot declarations carry (the attribute name of the element)
SlotNames == {<<"p">>, <<"A">>}

\* the identifier and positional index a slot declaration carries
SlotKeys ==
    {[id |-> "7", index |-> "s"], [id |-> "8", index |-> "t"], [id |-> "8", index |-> "s"]}

SlotDecls ==
    {[kind |-> Kinds[x], name |-> n, id |-> k.id, index |-> k.index] :
        x \in 1..3, n \in SlotNames, k \in SlotKeys}

\* the slot declarations of a registry, in document order: at most MaxSlots
SlotSeqs == UNION {[1..k -> SlotDecls] : k \in 0..MaxSlots}

\* the attributes of a <concept> element
ConceptHeads == [name : QualifiedNames, id : ConceptIds, index : ConceptIndexes]

\* which of k concepts each of t slot declarations is a child of; the
\* declarations being in document order, the owners do not decrease
Owners(k, t) == {o \in [1..t -> 1..k] : \A a, b \in 1..t : a < b => o[a] <= o[b]}

RECURSIVE SlotsOwnedBy(_, _, _, _)
\* the declarations of ss, from the x-th on, that are children of concept c
SlotsOwnedBy(ss, o, c, x) ==
    IF x > Len(ss) THEN <<>>
    ELSE (IF o[x] = c THEN <<ss[x]>> ELSE <<>>) \o SlotsOwnedBy(ss, o, c, x + 1)

\* k <concept> elements with the attributes hs and the slot declarations ss
ConceptDecls(k, hs, ss, o) ==
    [c \in 1..k |->
        [name |-> hs[c].name, id |-> hs[c].id, index |-> hs[c].index,
         slots |-> SlotsOwnedBy(ss, o, c, 1)]]

\* the ways to spread k concept declarations over languages, as the sizes
\* of the languages in document order
Layouts(k) ==
    IF k = 0 THEN {<<>>}
    ELSE {<<k>>} \cup {<<a, k - a>> : a \in 1..(k - 1)}

\* the registry whose languages have the sizes lay and hold the concepts cs
Metamodel(lay, cs) ==
    [l \in 1..Len(lay) |->
        [c \in 1..lay[l] |-> cs[(IF l = 1 THEN 0 ELSE lay[1]) + c]]]

\* an xml element is identified by its place in the document
ConceptElems(mm) == {[l |-> l, c |-> c] : l \in 1..Len(mm), c \in 1..MaxConcepts}
                        \cap {e \in [l : 1..Len(mm), c : 1..MaxConcepts] : e.c <= Len(mm[e.l])}

ConceptDecl(mm, e) == mm[e.l][e.c]

SlotElem(e, x) == [l |-> e.l, c |-> e.c, s |-> x]

\* concept_library and elem_library as parse_concepts creates them; the one
\* elem_library is the value of library['property'], library['reference']
\* and library['child'] alike
EmptyLibrary ==
    [concept |-> [name |-> EmptyDict, id |-> EmptyDict, index |-> EmptyDict,
                  property |-> EmptyDict, reference |-> EmptyDict, child |-> EmptyDict],
     elem |-> [name |-> EmptyDict, id |-> EmptyDict, index |-> EmptyDict,
               concept |-> EmptyDict]]

\* library[kind] for kind in 'property', 'reference', 'child': line 183 puts
\* the one elem_library under all three keys
Catalog(lib, kind) == lib.elem

\* the slots library[kind]['concept'] associates with concept element e: the
\* dictionary holds one element per concept
SlotsOfConcept(lib, kind, e) ==
    IF e \in DOMAIN Catalog(lib, kind).concept THEN {Catalog(lib, kind).concept[e]} ELSE {}

\* the body of the inner loop of parse_concept_elements for slot x of concept e
ParseElement(lib, mm, e, x) ==
    LET decl == ConceptDecl(mm, e).slots[x]
        elem == SlotElem(e, x)
        name == LastWord(ConceptDecl(mm, e).name)
    IN  [lib EXCEPT !.elem.name = Put(@, name, elem),
                    !.elem.id = Put(@, decl.id, elem),
                    !.elem.index = Put(@, decl.index, elem),
                    !.elem.concept = Put(@, e, elem),
                    !.concept[decl.kind] = Put(@, elem, e)]

RECURSIVE ParseElementsOfKind(_, _, _, _, _)
\* for elem in concept.findall(f'./{elem_type}'), from slot x on
ParseElementsOfKind(lib, mm, e, kind, x) ==
    IF x > Len(ConceptDecl(mm, e).slots) THEN lib
    ELSE ParseElementsOfKind(
             IF ConceptDecl(mm, e).slots[x].kind = kind
             THEN ParseElement(lib, mm, e, x) ELSE lib,
             mm, e, kind, x + 1)

RECURSIVE ParseConceptElements(_, _, _, _)
\* DecisionModel.parse_concept_elements(concept, library), from kind k on
ParseConceptElements(lib, mm, e, k) ==
    IF k > Len(Kinds) THEN lib
    ELSE ParseConceptElements(ParseElementsOfKind(lib, mm, e, Kinds[k], 1), mm, e, k + 1)

\* lines 187-190: the concept under its three keys
RegisterConcept(lib, mm, e) ==
    LET decl == ConceptDecl(mm, e)
        name == LastWord(decl.name)
    IN  [lib EXCEPT !.concept.name = Put(@, name, e),
                    !.concept.index = Put(@, decl.index, e),
                    !.concept.id = Put(@, decl.id, e)]

\* the concept elements in the order the two loops of parse_concepts visit
\* them: languages in document order, concepts in document order
RECURSIVE VisitOrder(_, _)
VisitOrder(mm, l) ==
    IF l > Len(mm) THEN <<>>
    ELSE [c \in 1..Len(mm[l]) |-> [l |-> l, c |-> c]] \o VisitOrder(mm, l + 1)

RECURSIVE ParseConceptsFrom(_, _, _)
\* the loop body of parse_concepts over the concepts es still to visit; the
\* result is "raised" when re.search finds no word at the end of a name
\* (None.group raises AttributeError)
ParseConceptsFrom(lib, mm, es) ==
    IF es = <<>> THEN [status |-> "ok", library |-> lib]
    ELSE IF LastWord(ConceptDecl(mm, Head(es)).name) = <<>>
         THEN [status |-> "raised", library |-> EmptyLibrary]
         ELSE ParseConceptsFrom(
                  ParseConceptElements(RegisterConcept(lib, mm, Head(es)), mm, Head(es), 1),
                  mm, Tail(es))

\* DecisionModel.parse_concepts()
ParseConceptsOf(mm) == ParseConceptsFrom(EmptyLibrary, mm, VisitOrder(mm, 1))

-----------------------------------------------------------------------------
(* The Model Parser: DecisionModel.parse_nodes and DecisionModel.create_node *)
(* xml is the model file: xml.n instance elements (<node>) numbered in      *)
(* document order, element i nested in element xml.parent[i] (0: a direct   *)
(* child of the document root) and carrying the attributes and the          *)
(* <property> and <ref> children xml.elem[i]; xml.root_concept is the       *)
(* root_concept the DecisionModel was constructed with.                     *)

\* root_concept = None
NoFilter == <<>>

\* the string 'root' that stands for the role of a node without role
RootMarker == [l |-> 0, c |-> 0, s |-> 0]

\* a concept element that is none (None where an Element is expected)
NoElem == [l |-> 0, c |-> 0]

\* no model file has been read
NoDocument == [n |-> 0, parent |-> <<>>, elem |-> <<>>, root_concept |-> NoFilter]

\* parse_nodes has not run
NotParsed == [status |-> "none", nodes |-> <<>>]

\* DecisionNode.ref has not been read
NotRead == [status |-> "none"]

\* an exception leaves the statement without a value
Raised == [status |-> "raised", value |-> <<>>]

\* the slot elements the registry declares
SlotElems(mm) ==
    UNION {{SlotElem(e, x) : x \in 1..Len(ConceptDecl(mm, e).slots)} : e \in ConceptElems(mm)}

\* the declaration (kind, name, id, index) of a slot element
SlotDeclOf(mm, el) == mm[el.l][el.c].slots[el.s]

\* dict[k] on one of the dictionaries of the library: KeyError when k is
\* not a key
IndexLookup(dict, k) ==
    IF k \in DOMAIN dict THEN [found |-> TRUE, value |-> dict[k]]
    ELSE [found |-> FALSE, value |-> NoElem]

\* variant: dict.get(k), which yields None for an unknown key
ConceptByIndexGet(lib, k) ==
    IF k \in DOMAIN lib.concept.index THEN [found |-> TRUE, value |-> lib.concept.index[k]]
    ELSE [found |-> TRUE, value |-> NoElem]

\* self.concepts['concept']['index'][xml_node.get('concept')]
ConceptByIndex(lib, k) == IndexLookup(lib.concept.index, k)

\* xml_node.findall('node'): the child elements in document order
DocChildren(doc, i) == Ascending({j \in 1..doc.n : doc.parent[j] = i})

RECURSIVE DmProperties(_, _, _)
\* the loop over xml_node.findall('property'); library['property'] is the
\* shared elem_library
DmProperties(lib, mm, ps) ==
    IF ps = <<>> THEN [status |-> "ok", value |-> <<>>]
    ELSE LET slot == IndexLookup(lib.elem.index, Head(ps).role)
             rest == DmProperties(lib, mm, Tail(ps))
         IN  IF ~slot.found \/ rest.status = "raised" THEN Raised
             ELSE [status |-> "ok",
                   value |-> <<[role |-> Head(ps).role, value |-> Head(ps).value,
                                name |-> SlotDeclOf(mm, slot.value).name]>> \o rest.value]

\* variant: the resolve pointer 'to' is preferred to the direct pointer
DmReferencesToFirst(rs) ==
    [x \in 1..Len(rs) |->
        [role |-> rs[x].role,
         to |-> IF rs[x].to = NoId THEN rs[x].node ELSE rs[x].to,
         resolve |-> rs[x].resolve]]

\* the loop over xml_node.findall('ref'): the attributes are stored as they
\* are read, the direct pointer 'node' before the resolve pointer 'to'
DmReferences(rs) ==
    [x \in 1..Len(rs) |->
        [role |-> rs[x].role,
         to |-> IF rs[x].node = NoId THEN rs[x].to ELSE rs[x].node,
         resolve |-> rs[x].resolve]]

RECURSIVE DmCreateNode(_, _, _, _)
RECURSIVE DmCreateNodes(_, _, _, _)
\* [self.create_node(x) for x in is], stopped by the first exception
DmCreateNodes(lib, mm, doc, is) ==
    IF is = <<>> THEN [status |-> "ok", value |-> <<>>]
    ELSE LET first == DmCreateNode(lib, mm, doc, Head(is))
         IN  IF first.status = "raised" THEN Raised
             ELSE LET rest == DmCreateNodes(lib, mm, doc, Tail(is))
                  IN  IF rest.status = "raised" THEN Raised
                      ELSE [status |-> "ok", value |-> <<first.value>> \o rest.value]

\* DecisionModel.create_node(xml_node) for element i
DmCreateNode(lib, mm, doc, i) ==
    LET el == doc.elem[i]
        node_concept_xml == ConceptByIndex(lib, el.concept)
        node_role_xml == IF el.role = NoAttr
                         THEN [found |-> TRUE, value |-> RootMarker]
                         ELSE IndexLookup(lib.elem.index, el.role)
    IN  IF ~node_concept_xml.found \/ ~node_role_xml.found THEN Raised
        ELSE LET ps == DmProperties(lib, mm, el.props)
             IN  IF ps.status = "raised" THEN Raised
                 ELSE LET cs == DmCreateNodes(lib, mm, doc, DocChildren(doc, i))
                      IN  IF cs.status = "raised" THEN Raised
                          ELSE [status |-> "ok",
                                value |-> [id |-> NodeId(i),
                                           concept_xml |-> node_concept_xml.value,
                                           role_xml |-> node_role_xml.value,
                                           properties |-> ps.value,
                                           references |-> DmReferences(el.refs),
                                           children |-> cs.value]]

\* variant: the filter is applied to the direct children of the root only
SelectRootsTopLevel(lib, mm, doc) ==
    IF doc.root_concept = NoFilter
    THEN [status |-> "ok", value |-> Ascending({i \in 1..doc.n : doc.parent[i] = 0})]
    ELSE LET c == IndexLookup(lib.concept.name, doc.root_concept)
         IN  IF ~c.found THEN Raised
             ELSE [status |-> "ok",
                   value |-> Ascending({i \in 1..doc.n :
                                 /\ doc.parent[i] = 0
                                 /\ doc.elem[i].concept = ConceptDecl(mm, c.value).index})]

\* the elements parse_nodes makes roots of: root.findall('node') without
\* root_concept, root.findall(".//*[@concept='<root_index>']") with it
SelectRoots(lib, mm, doc) ==
    IF doc.root_concept = NoFilter
    THEN [status |-> "ok", value |-> Ascending({i \in 1..doc.n : doc.parent[i] = 0})]
    ELSE LET c == IndexLookup(lib.concept.name, doc.root_concept)
         IN  IF ~c.found THEN Raised
             ELSE [status |-> "ok",
                   value |-> Ascending({i \in 1..doc.n :
                                 doc.elem[i].concept = ConceptDecl(mm, c.value).index})]

\* DecisionModel.parse_nodes()
ParseNodesOf(lib, mm, doc) ==
    LET roots == SelectRoots(lib, mm, doc)
    IN  IF roots.status = "raised" THEN Raised
        ELSE DmCreateNodes(lib, mm, doc, roots.value)

\* variant: the first reference is returned whenever there is one
DecisionNodeRefFirst(nd) ==
    LET refnames == [x \in 1..Len(nd.references) |-> nd.references[x].resolve]
    IN  IF Len(refnames) >= 1 THEN [status |-> "returned", value |-> refnames[1]]
        ELSE [status |-> "raised", value |-> NoAttr]

\* DecisionNode.ref
DecisionNodeRef(nd) ==
    LET refnames == [x \in 1..Len(nd.references) |-> nd.references[x].resolve]
    IN  IF Len(refnames) = 1 THEN [status |-> "returned", value |-> refnames[1]]
        ELSE [status |-> "raised", value |-> NoAttr]

RECURSIVE AllNodes(_)
\* the DecisionNodes of a list of trees, descendants included
AllNodes(trees) ==
    UNION {{trees[x]} \cup AllNodes(trees[x].children) : x \in 1..Len(trees)}

-----------------------------------------------------------------------------
(* LegalKnowledgeBase.from_decision_method, statement by statement *)

\* the nodes an earlier, separate run may have left in the store
PreStores == SUBSET {MissingId}

Init ==
    /\ pc = "build"
    /\ \E k \in 0..MaxNodes : \E f \in Forests(k) : \E rs \in RefSeqs(k) :
          dm = DecisionMethod(k, f, rs)
    /\ props = [i \in DmNodes |-> <<>>]
    /\ kb = [m \in Models |-> EmptyKbModel]
    /\ \E pre \in PreStores : graph = StoreWith(pre)
    /\ out = <<>>
    /\ calls = <<>>
    /\ raw = <<>>
    /\ key = <<>>
    /\ meta = <<>>
    /\ library = EmptyLibrary
    /\ xml = NoDocument
    /\ parsed = NotParsed
    /\ ret = NotRead

\* the model the next from_decision_model statement builds
NextModel == CHOOSE m \in Models : ~kb[m].built /\ \A k \in 1..(m - 1) : kb[k].built

\* legal_kb.<x>_model = KnowledgeBaseModel.from_decision_model(...); an
\* exception raised while the model is built leaves from_decision_method,
\* and the attribute keeps its default
BuildModel ==
    /\ pc = "build"
    /\ LET m == FromDecisionModel(NextModel)
       IN  IF m.failed
           THEN /\ kb' = kb
                /\ graph' = graph
                /\ pc' = "build_raised"
           ELSE /\ kb' = [kb EXCEPT ![NextModel] = m]
                /\ graph' = KeptInMemory(graph, m)
                /\ pc' = IF NextModel = NumModels THEN "merge" ELSE "build"
    /\ UNCHANGED <<dm, props, out, calls, raw, key, meta, library, xml, parsed, ret>>

\* [legal_kb.graph.merge(model.subgraph, "KBNode", "alef_id") for model in ...]
MergeAll ==
    /\ pc = "merge"
    /\ graph' = MergeModels(graph, 1)
    /\ pc' = "resolve"
    /\ UNCHANGED <<dm, props, kb, out, calls, raw, key, meta, library, xml, parsed, ret>>

\* variant: create_references may run before the subgraphs are merged
ResolveReadyEarly == pc \in {"merge", "resolve", "done"}

\* create_references is called after the merge of line 213, and may be
\* called again on the returned knowledge base
ResolveReady == pc \in {"resolve", "done"}

\* KnowledgeBase.create_references(print_missed_references)
CreateReferences(flag) ==
    /\ ResolveReady
    /\ Len(calls) < MaxRuns
    /\ LET st == ResolveModels([graph |-> graph, out |-> out], 1, flag)
       IN  /\ graph' = st.graph
           /\ out' = st.out
    /\ calls' = Append(calls, flag)
    /\ pc' = "done"
    /\ UNCHANGED <<dm, props, kb, raw, key, meta, library, xml, parsed, ret>>

Next ==
    \/ BuildModel
    \/ MergeAll
    \/ \E flag \in BOOLEAN : CreateReferences(flag)

Spec == Init /\ [][Next]_vars

-----------------------------------------------------------------------------
(* Graph building on its own (phase 1): the four from_decision_model        *)
(* statements of from_decision_method, on decision nodes that carry         *)
(* properties as well as references.                                        *)

\* the (name, value) pairs a DecisionProperty may carry; alef_id, role and
\* name are also the names of the properties create_node sets itself, and
\* NoValue is the value of a <property> element without attribute value
PropPairs ==
    {[name |-> "alef_id", value |-> <<"v">>], [name |-> "p", value |-> <<"u">>],
     [name |-> "p", value |-> <<"v">>], [name |-> "p", value |-> NoValue],
     [name |-> "name", value |-> <<"u">>]}

\* at most this many properties, over the k nodes of a unit, each given as
\* <<node, pair>> in the order the node carries them
PropSeqs(k, most) == UNION {[1..q -> (1..k) \X PropPairs] : q \in 0..most}

Min(a, b) == IF a <= b THEN a ELSE b

InitBuild ==
    /\ pc = "build"
    /\ \E k \in 0..MaxNodes : \E f \in Forests(k) : \E rs \in RefSeqs(k) :
          \E ps \in PropSeqs(k, Min(MaxProps, MaxItems - Len(rs))) :
              /\ dm = DecisionMethod(k, f, rs)
              /\ props = [i \in 1..k |-> RefsOf(ps, i)]
    /\ kb = [m \in Models |-> EmptyKbModel]
    /\ graph = EmptyStore
    /\ out = <<>>
    /\ calls = <<>>
    /\ raw = <<>>
    /\ key = <<>>
    /\ meta = <<>>
    /\ library = EmptyLibrary
    /\ xml = NoDocument
    /\ parsed = NotParsed
    /\ ret = NotRead

NextBuild == BuildModel

SpecBuild == InitBuild /\ [][NextBuild]_vars

-----------------------------------------------------------------------------
(* Graph building in any order: the models of the unit are built root by    *)
(* root, and a step may be taken for any model that is not built yet, so    *)
(* that the builds of different models interleave. kb[m].root_nodes holds   *)
(* the roots of model m created so far.                                     *)

\* variant: the models share one node set (a Subgraph common to all
\* KnowledgeBaseModel instances)
SharedState(m) == [kb[m] EXCEPT !.nodes = UNION {kb[k].nodes : k \in Models}]

\* create_node works on self: the subgraph and the reference_list of the
\* KnowledgeBaseModel that from_decision_model has created for this model
OwnState(m) == kb[m]

InitOrder ==
    /\ Init
    /\ graph.nodes = {}

\* one more kb_model.create_node(dm_node) of the loop over
\* decision_model.nodes of model m, or the return of from_decision_model
BuildStep(m) ==
    /\ pc = "build"
    /\ ~kb[m].built
    /\ LET done == Len(kb[m].root_nodes)
           roots == ModelRoots(m)
       IN  IF done = Len(roots)
           THEN /\ kb' = [kb EXCEPT ![m].built = TRUE]
                /\ pc' = pc
           ELSE LET r == CreateNode(OwnState(m), roots[done + 1])
                IN  IF r.failed
                    THEN /\ kb' = kb
                         /\ pc' = "build_raised"
                    ELSE /\ kb' = [kb EXCEPT ![m] =
                                      [r EXCEPT !.root_nodes = Append(@, KbNode(roots[done + 1]))]]
                         /\ pc' = pc
    /\ UNCHANGED <<dm, props, graph, out, calls, raw, key, meta, library, xml, parsed, ret>>

NextOrder == \E m \in Models : BuildStep(m)

SpecOrder == InitOrder /\ [][NextOrder]_vars

-----------------------------------------------------------------------------
(* DecisionReference.id on its own: the property is read for one raw target *)

IdAlphabet == {"n", "x", Colon}

RawStrings == UNION {[1..k -> IdAlphabet] : k \in 0..MaxLen}

InitId ==
    /\ pc = "id"
    /\ raw \in RawStrings
    /\ key = <<>>
    /\ dm = [n |-> 0, model |-> <<>>, parent |-> <<>>, refs |-> <<>>]
    /\ props = <<>>
    /\ kb = [m \in Models |-> EmptyKbModel]
    /\ graph = EmptyStore
    /\ out = <<>>
    /\ calls = <<>>
    /\ meta = <<>>
    /\ library = EmptyLibrary
    /\ xml = NoDocument
    /\ parsed = NotParsed
    /\ ret = NotRead

\* dm_ref.id (knowledge_base.py lines 115 and 155)
ReadId ==
    /\ pc = "id"
    /\ key' = DecisionReferenceId(raw)
    /\ pc' = "id_done"
    /\ UNCHANGED <<dm, props, kb, graph, out, calls, raw, meta, library, xml, parsed, ret>>

NextId == ReadId

SpecId == InitId /\ [][NextId]_vars

-----------------------------------------------------------------------------
(* DecisionModel.__init__: self.concepts = self.parse_concepts()            *)

InitConcepts ==
    /\ pc = "parse"
    /\ \E k \in 0..MaxConcepts : \E lay \in Layouts(k) : \E hs \in [1..k -> ConceptHeads] :
          \E ss \in SlotSeqs : \E o \in Owners(k, Len(ss)) :
              meta = Metamodel(lay, ConceptDecls(k, hs, ss, o))
    /\ library = EmptyLibrary
    /\ raw = <<>>
    /\ key = <<>>
    /\ dm = [n |-> 0, model |-> <<>>, parent |-> <<>>, refs |-> <<>>]
    /\ props = <<>>
    /\ kb = [m \in Models |-> EmptyKbModel]
    /\ graph = EmptyStore
    /\ out = <<>>
    /\ calls = <<>>
    /\ xml = NoDocument
    /\ parsed = NotParsed
    /\ ret = NotRead

\* parse_concepts returns the library, or raises and leaves none
ParseConcepts ==
    /\ pc = "parse"
    /\ LET r == ParseConceptsOf(meta)
       IN  /\ library' = r.library
           /\ pc' = IF r.status = "ok" THEN "parsed" ELSE "raised"
    /\ UNCHANGED <<dm, props, kb, graph, out, calls, raw, key, meta, xml, parsed, ret>>

NextConcepts == ParseConcepts

SpecConcepts == InitConcepts /\ [][NextConcepts]_vars

-----------------------------------------------------------------------------
(* DecisionModel.__init__ as a whole: self.concepts = self.parse_concepts() *)
(* and then self.nodes = self.parse_nodes(); DecisionNode.ref is read on a  *)
(* node of the result.                                                      *)

\* the registry of the file read: language l declares concept l.A (index i)
\* with the property slot p (index s) and the child slot q (index t), and
\* concept l.B (index j) with the reference slot r (index u)
ParserRegistry ==
    << << [name |-> <<"l", ".", "A">>, id |-> "1", index |-> "i",
           slots |-> << [kind |-> "property", name |-> <<"p">>, id |-> "7", index |-> "s"],
                        [kind |-> "child", name |-> <<"q">>, id |-> "8", index |-> "t"] >>],
          [name |-> <<"l", ".", "B">>, id |-> "2", index |-> "j",
           slots |-> << [kind |-> "reference", name |-> <<"r">>, id |-> "9", index |-> "u"] >>] >> >>

\* the values of the attribute concept of an instance element: the index of
\* l.A, of l.B, an index no concept carries, no attribute
ConceptAttrs == {"i", "j", "z", NoAttr}

\* the values of the attribute role of an instance element: none, the index
\* of the child slot, of the property slot, an index no slot carries
RoleAttrs == {NoAttr, "t", "s", "z"}

\* the <property> elements an instance element may carry
PropElems ==
    {[role |-> "s", value |-> <<"u">>], [role |-> "t", value |-> <<"v">>],
     [role |-> "z", value |-> <<"u">>]}

\* the <ref> elements an instance element may carry: with the resolve
\* pointer, with both pointers, with neither, with the direct pointer
RefElems ==
    {[role |-> "u", node |-> NoId, to |-> <<"n", Colon, "b">>, resolve |-> "R"],
     [role |-> "z", node |-> <<"a">>, to |-> <<"n", Colon, "b">>, resolve |-> "S"],
     [role |-> "u", node |-> NoId, to |-> NoId, resolve |-> "R"],
     [role |-> "u", node |-> <<"a">>, to |-> NoId, resolve |-> NoAttr]}

\* the values of root_concept: none, l.A by its short name, an unknown name
Filters == {NoFilter, <<"A">>, <<"Z">>}

PropElemSeqs == UNION {[1..k -> PropElems] : k \in 0..MaxProps}

RefElemSeqs == UNION {[1..k -> RefElems] : k \in 0..MaxRefs}

\* an instance element without <property> and <ref> children
PlainElems == [concept : ConceptAttrs, role : RoleAttrs, props : {<<>>}, refs : {<<>>}]

RECURSIVE AncestorsOrSelf(_, _)
AncestorsOrSelf(f, i) == IF i = 0 THEN {} ELSE {i} \cup AncestorsOrSelf(f, f[i])

\* the nestings of k elements numbered in document order: an element is a
\* direct child of the root, or nested in the element before it or in one
\* of that element's ancestors
DocShapes(k) ==
    {f \in [1..k -> 0..k] :
        \A i \in 1..k :
            /\ f[i] < i
            /\ (i > 1 /\ f[i] # 0) => f[i] \in AncestorsOrSelf(f, i - 1)}

\* k elements of concept l.A in their parents' child slot, the last one
\* carrying the properties ps and the references rs
ContentElems(k, f, ps, rs) ==
    [i \in 1..k |->
        [concept |-> "i", role |-> IF f[i] = 0 THEN NoAttr ELSE "t",
         props |-> IF i = k THEN ps ELSE <<>>,
         refs |-> IF i = k THEN rs ELSE <<>>]]

InitParse ==
    /\ pc = "parse"
    /\ meta = ParserRegistry
    /\ \E k \in 0..MaxElems : \E f \in DocShapes(k) : \E rc \in Filters :
          \/ \E es \in [1..k -> PlainElems] :
                xml = [n |-> k, parent |-> f, elem |-> es, root_concept |-> rc]
          \/ /\ k >= 1
             /\ \E ps \in PropElemSeqs : \E rs \in RefElemSeqs :
                   xml = [n |-> k, parent |-> f, elem |-> ContentElems(k, f, ps, rs),
                          root_concept |-> rc]
    /\ library = EmptyLibrary
    /\ parsed = NotParsed
    /\ ret = NotRead
    /\ raw = <<>>
    /\ key = <<>>
    /\ dm = [n |-> 0, model |-> <<>>, parent |-> <<>>, refs |-> <<>>]
    /\ props = <<>>
    /\ kb = [m \in Models |-> EmptyKbModel]
    /\ graph = EmptyStore
    /\ out = <<>>
    /\ calls = <<>>

\* self.nodes = self.parse_nodes(): the list of root nodes, or an exception
\* that leaves the DecisionModel without nodes
ParseNodes ==
    /\ pc = "parsed"
    /\ LET r == ParseNodesOf(library, meta, xml)
       IN  /\ parsed' = [status |-> r.status, nodes |-> r.value]
           /\ pc' = IF r.status = "ok" THEN "nodes_done" ELSE "nodes_raised"
    /\ UNCHANGED <<dm, props, kb, graph, out, calls, raw, key, meta, library, xml, ret>>

\* a caller reads node.ref on a node of the parsed trees
ReadRef ==
    /\ pc = "nodes_done"
    /\ \E nd \in AllNodes(parsed.nodes) :
          LET r == DecisionNodeRef(nd)
          IN  ret' = [status |-> r.status, value |-> r.value, node |-> nd]
    /\ pc' = "read"
    /\ UNCHANGED <<dm, props, kb, graph, out, calls, raw, key, meta, library, xml, parsed>>

NextParse ==
    \/ ParseConcepts
    \/ ParseNodes
    \/ ReadRef

SpecParse == InitParse /\ [][NextParse]_vars

-----------------------------------------------------------------------------
(* Notions the properties below are stated with *)

\* the pending references recorded during graph building, over all models
PendingPairs ==
    UNION {{kb[m].reference_list[x] : x \in 1..Len(kb[m].reference_list)} : m \in Models}

RECURSIVE PendingCountFrom(_, _, _)
\* how many pending references of the models mi.. go from element s to the
\* normalized target t
PendingCountFrom(mi, s, t) ==
    IF mi > NumModels THEN 0
    ELSE Cardinality({x \in 1..Len(kb[mi].reference_list) :
                         /\ kb[mi].reference_list[x][1] = s
                         /\ DecisionReferenceId(kb[mi].reference_list[x][2]) = t})
         + PendingCountFrom(mi + 1, s, t)

PendingCount(s, t) == PendingCountFrom(1, s, t)

RECURSIVE UnresolvedCountFrom(_)
\* how many pending references of the models mi.. have a normalized target
\* that is the key of no node of the store
UnresolvedCountFrom(mi) ==
    IF mi > NumModels THEN 0
    ELSE Cardinality({x \in 1..Len(kb[mi].reference_list) :
                         DecisionReferenceId(kb[mi].reference_list[x][2]) \notin graph.nodes})
         + UnresolvedCountFrom(mi + 1)

\* how many times the note n has been printed
NoteCount(n) == Cardinality({x \in 1..Len(out) : out[x] = n})

\* the references_to relationship of the store from element s to key t
RefEdge(s, t) == <<"references_to", NodeId(s), t>>

\* the identifiers of the nodes built in the models of the unit of work
BuiltIds == UNION {{x.alef_id : x \in kb[m].nodes} : m \in Models}

AllBuilt == \A m \in Models : kb[m].built

IndexComplete == \A i \in DmNodes : NodeId(i) \in graph.nodes

\* a pending reference is either resolved and not reported, or not resolved
\* and reported once per pending entry
AccountedOnce(p) ==
    LET t == DecisionReferenceId(p[2])
    IN  \/ /\ BagIn(RefEdge(p[1], t), graph.rels)
           /\ NoteCount(Note(p[1], p[2])) = 0
        \/ /\ ~BagIn(RefEdge(p[1], t), graph.rels)
           /\ NoteCount(Note(p[1], p[2])) = PendingCount(p[1], t)

\* the characters of s after position c
Suffix(s, c) == [i \in 1..(Len(s) - c) |-> s[c + i]]

-----------------------------------------------------------------------------
(* C1 *)

-----------------------------------------------------------------------------
(* C2 *)

\* root r1 with child c1 that references the missing identifier x9
ScenarioC2 ==
    [n |-> 2, model |-> <<1, 1>>, parent |-> <<0, 1>>, refs |-> <<<<>>, <<MissingId>>>>]

ScenarioC2Graph ==
    /\ graph.nodes = {NodeId(1), NodeId(2)}
    /\ graph.rels = SetToBag({<<"has_child", NodeId(1), NodeId(2)>>})

-----------------------------------------------------------------------------
(* C3 *)

\* C3: a call of create_references starts only when every model of the unit
\* has been built and every node of every model is in the store's index, and
\* the call itself leaves that index as it found it.
C3_TwoPhaseBarrier ==
    [][(calls' # calls) => (AllBuilt /\ IndexComplete /\ graph'.nodes = graph.nodes)]_vars

C3_Witness ==
    /\ Len(calls) >= 1
    /\ PendingPairs # {}
    /\ \E i, j \in DmNodes : dm.model[i] # dm.model[j]

-----------------------------------------------------------------------------
(* C4 *)

-----------------------------------------------------------------------------
(* C5 *)

-----------------------------------------------------------------------------
(* C6 *)

\* C6: the store never holds two references_to relationships with the same
\* source and the same target.
C6_EdgeMergeIdempotent ==
    \A e \in BagToSet(graph.rels) : e[1] = "references_to" => CopiesIn(e, graph.rels) = 1

\* two pending references of one node to the same target, resolved twice
C6_Witness ==
    /\ Len(calls) = 2
    /\ \E p \in PendingPairs :
          /\ PendingCount(p[1], DecisionReferenceId(p[2])) = 2
          /\ BagIn(RefEdge(p[1], DecisionReferenceId(p[2])), graph.rels)

-----------------------------------------------------------------------------
(* C7 *)

HasChildRels(m) == {r \in kb[m].rels : r[1] = "has_child"}

\* C7: a built model whose N nodes carry no reference has N graph nodes,
\* N - R has_child relationships (R its number of roots), no other
\* relationship and an empty pending list.
C7_NodeAndChildCounts ==
    \A m \in Models :
        (kb[m].built /\ \A i \in ModelNodes(m) : dm.refs[i] = <<>>) =>
            /\ Cardinality(kb[m].nodes) = Cardinality(ModelNodes(m))
            /\ Cardinality(HasChildRels(m)) =
                  Cardinality(ModelNodes(m)) - Cardinality({i \in ModelNodes(m) : dm.parent[i] = 0})
            /\ kb[m].rels = HasChildRels(m)
            /\ kb[m].reference_list = <<>>

C7_Witness ==
    \E m \in Models :
        /\ kb[m].built
        /\ \A i \in ModelNodes(m) : dm.refs[i] = <<>>
        /\ Cardinality(ModelNodes(m)) = 3
        /\ Cardinality({i \in ModelNodes(m) : dm.parent[i] = 0}) = 1
        /\ Cardinality(HasChildRels(m)) = 2

-----------------------------------------------------------------------------
(* C8 *)

\* C8: for a raw target with exactly one colon the join key is the text
\* after the colon, unchanged; a raw target without colon is its own key.
C8_SingleColonSuffix ==
    pc = "id_done" =>
        /\ \A c \in 1..Len(raw) :
              (raw[c] = Colon /\ \A j \in 1..Len(raw) : j # c => raw[j] # Colon)
                  => key = Suffix(raw, c)
        /\ (\A j \in 1..Len(raw) : raw[j] # Colon) => key = raw

C8_Witness ==
    /\ pc = "id_done"
    /\ raw = <<"n", "n", Colon, "x", "n">>
    /\ key = <<"x", "n">>

-----------------------------------------------------------------------------
(* C9 *)

-----------------------------------------------------------------------------
(* C10 *)

\* the concept declarations of the registry carry pairwise distinct
\* qualified names, identifiers and positional indexes
DistinctDeclarations ==
    \A e, f \in ConceptElems(meta) :
        e # f =>
            /\ ConceptDecl(meta, e).name # ConceptDecl(meta, f).name
            /\ ConceptDecl(meta, e).id # ConceptDecl(meta, f).id
            /\ ConceptDecl(meta, e).index # ConceptDecl(meta, f).index

\* C10: once the index is built, every declared concept is found under its
\* normalized name, its identifier and its positional index, and the three
\* lookups return the declaration itself (same name, identifier, index).
\* Stated for registries without duplicate declarations.
C10_IndexConsistency ==
    (pc = "parsed" /\ DistinctDeclarations) =>
        \A e \in ConceptElems(meta) :
            LET d == ConceptDecl(meta, e)
            IN  /\ library.concept.name[LastWord(d.name)] = e
                /\ library.concept.id[d.id] = e
                /\ library.concept.index[d.index] = e

-----------------------------------------------------------------------------
(* C11 *)

\* the slot declarations of the registry carry pairwise distinct names,
\* identifiers and positional indexes
DistinctSlotDeclarations ==
    \A a, b \in SlotElems(meta) :
        a # b =>
            /\ SlotDeclOf(meta, a).name # SlotDeclOf(meta, b).name
            /\ SlotDeclOf(meta, a).id # SlotDeclOf(meta, b).id
            /\ SlotDeclOf(meta, a).index # SlotDeclOf(meta, b).index

\* C11: once the index is built, every declared slot is found in the slot
\* catalog under its own name, its own identifier and its own positional
\* index, and each of the three lookups returns that slot. Stated for
\* registries without duplicate slot declarations.
C11_SlotThreeKeys ==
    (pc = "parsed" /\ DistinctSlotDeclarations) =>
        \A el \in SlotElems(meta) :
            LET d == SlotDeclOf(meta, el)
            IN  /\ d.name \in DOMAIN library.elem.name
                /\ library.elem.name[d.name] = el
                /\ d.id \in DOMAIN library.elem.id
                /\ library.elem.id[d.id] = el
                /\ d.index \in DOMAIN library.elem.index
                /\ library.elem.index[d.index] = el

-----------------------------------------------------------------------------
(* C12 *)

\* C12: parse_concepts returns an index only for a registry in which no two
\* concept declarations and no two slot declarations carry the same
\* positional index; on a duplicate it fails instead.
C12_DuplicateIndexFatal ==
    pc = "parsed" =>
        /\ \A e, f \in ConceptElems(meta) :
              e # f => ConceptDecl(meta, e).index # ConceptDecl(meta, f).index
        /\ \A a, b \in SlotElems(meta) :
              a # b => SlotDeclOf(meta, a).index # SlotDeclOf(meta, b).index

-----------------------------------------------------------------------------
(* Notions the properties of the Model Parser are stated with *)

\* the positional indexes the concept declarations of the registry carry
RegisteredConceptIndexes(mm) == {ConceptDecl(mm, e).index : e \in ConceptElems(mm)}

\* the positional indexes the slot declarations of the registry carry
RegisteredSlotIndexes(mm) == {SlotDeclOf(mm, el).index : el \in SlotElems(mm)}

\* the short names of the concepts the registry declares
KnownConceptNames(mm) == {LastWord(ConceptDecl(mm, e).name) : e \in ConceptElems(mm)}

ParserHasRun == pc \in {"nodes_done", "nodes_raised", "read"}

FilterKnown ==
    xml.root_concept = NoFilter \/ xml.root_concept \in KnownConceptNames(meta)

\* the positional index of the concept root_concept names
FilterIndex ==
    ConceptDecl(meta, CHOOSE e \in ConceptElems(meta) :
                          LastWord(ConceptDecl(meta, e).name) = xml.root_concept).index

\* the elements the Model Parser has to make roots of
ExpectedRoots ==
    IF xml.root_concept = NoFilter THEN {i \in 1..xml.n : xml.parent[i] = 0}
    ELSE IF ~FilterKnown THEN {}
    ELSE {i \in 1..xml.n : xml.elem[i].concept = FilterIndex}

\* the elements the parser reads: the roots and what is nested in them
Visited == {j \in 1..xml.n : AncestorsOrSelf(xml.parent, j) \cap ExpectedRoots # {}}

\* element i carries a concept, parent-slot or property-slot index that no
\* declaration of the registry carries
UnknownKeyAt(i) ==
    \/ xml.elem[i].concept \notin RegisteredConceptIndexes(meta)
    \/ xml.elem[i].role # NoAttr /\ xml.elem[i].role \notin RegisteredSlotIndexes(meta)
    \/ \E x \in 1..Len(xml.elem[i].props) :
          xml.elem[i].props[x].role \notin RegisteredSlotIndexes(meta)

-----------------------------------------------------------------------------
(* C13 *)

\* C13: when root_concept names no concept of the registry, or an element
\* the parser reads carries a concept index, a parent-slot index or a
\* property slot index that no declaration of the registry carries (for the
\* concept also: no attribute), parse_nodes raises and returns no node; and
\* every DecisionNode returned has a declared concept, the root marker or a
\* declared slot as its role, and properties named by declared slots.
C13_UnknownKeyFails ==
    ParserHasRun =>
        /\ (~FilterKnown \/ \E i \in Visited : UnknownKeyAt(i)) =>
              (parsed.status = "raised" /\ parsed.nodes = <<>>)
        /\ \A nd \in AllNodes(parsed.nodes) :
              /\ nd.concept_xml \in ConceptElems(meta)
              /\ nd.role_xml = RootMarker \/ nd.role_xml \in SlotElems(meta)
              /\ \A x \in 1..Len(nd.properties) :
                    nd.properties[x].name \in {SlotDeclOf(meta, el).name : el \in SlotElems(meta)}

\* a nested element without concept attribute below a well-formed root
C13_Witness ==
    /\ pc = "nodes_raised"
    /\ FilterKnown
    /\ \E i \in Visited :
          /\ xml.parent[i] # 0
          /\ xml.elem[i].concept = NoAttr
          /\ \A j \in Visited \ {i} : ~UnknownKeyAt(j)

-----------------------------------------------------------------------------
(* C14 *)

\* C14: when an element the parser reads carries a <ref> with neither the
\* attribute node nor the attribute to, parse_nodes raises; no DecisionNode
\* returned carries a reference without target identifier.
C14_MalformedReferenceFails ==
    ParserHasRun =>
        /\ (\E i \in Visited : \E x \in 1..Len(xml.elem[i].refs) :
               xml.elem[i].refs[x].node = NoId /\ xml.elem[i].refs[x].to = NoId)
              => parsed.status = "raised"
        /\ \A nd \in AllNodes(parsed.nodes) : \A x \in 1..Len(nd.references) :
              nd.references[x].to # NoId

-----------------------------------------------------------------------------
(* C15 *)

\* C15: when an element the parser reads carries a <ref> whose role is the
\* positional index of no slot declaration, parse_nodes raises, as it does
\* for a <property> with such a role.
C15_UnknownReferenceSlotFails ==
    ParserHasRun =>
        ((\E i \in Visited : \E x \in 1..Len(xml.elem[i].refs) :
             xml.elem[i].refs[x].role \notin RegisteredSlotIndexes(meta))
            => parsed.status = "raised")

-----------------------------------------------------------------------------
(* C16 *)

\* C16: DecisionNode.ref returns exactly when the node carries one reference,
\* and then the value of that reference; with no reference and with two or
\* more it raises. Parsing does not raise on account of the number of
\* references: a file without unknown key yields its nodes.
C16_SingularReference ==
    /\ pc = "read" =>
          /\ ret.status = "returned" <=> Len(ret.node.references) = 1
          /\ ret.status = "raised" <=> Len(ret.node.references) # 1
          /\ Len(ret.node.references) = 1 => ret.value = ret.node.references[1].resolve
    /\ (ParserHasRun /\ FilterKnown /\ \A i \in Visited : ~UnknownKeyAt(i)) =>
          /\ parsed.status = "ok"
          /\ \A i \in Visited : \E nd \in AllNodes(parsed.nodes) :
                nd.id = NodeId(i) /\ Len(nd.references) = Len(xml.elem[i].refs)

\* the accessor raised on a parsed node that carries two references
C16_Witness ==
    /\ pc = "read"
    /\ ret.status = "raised"
    /\ Len(ret.node.references) = 2

-----------------------------------------------------------------------------
(* C18 *)

\* C18: the roots parse_nodes returns are, in document order, the direct
\* children of the document root when there is no root_concept, and with a
\* root_concept the elements at any depth whose attribute concept is the
\* positional index of that concept.
C18_RootSelection ==
    pc = "nodes_done" =>
        [x \in 1..Len(parsed.nodes) |-> parsed.nodes[x].id]
            = [x \in 1..Cardinality(ExpectedRoots) |-> NodeId(Ascending(ExpectedRoots)[x])]

\* with a filter, the one root is an element two levels below the top
C18_Witness ==
    /\ pc = "nodes_done"
    /\ xml.root_concept # NoFilter
    /\ Len(parsed.nodes) = 1
    /\ \E i \in 1..xml.n :
          /\ xml.parent[i] # 0
          /\ xml.parent[xml.parent[i]] # 0
          /\ parsed.nodes[1].id = NodeId(i)

-----------------------------------------------------------------------------
(* Notions the properties of graph building are stated with *)

\* the graph nodes model m holds for decision node i
GraphNodesOf(m, i) == {nd \in kb[m].nodes : nd.obj = i}

\* every parent-child pair of model m has its has_child relationship
ContainmentBuilt(m) ==
    \A i \in ModelNodes(m) :
        dm.parent[i] # 0 =>
            \E r \in kb[m].rels :
                r[1] = "has_child" /\ r[2].obj = dm.parent[i] /\ r[3].obj = i

\* every entry of the pending list of model m is a reference of one of the
\* nodes of m
PendingOnlyReferences(m) ==
    \A x \in 1..Len(kb[m].reference_list) :
        LET p == kb[m].reference_list[x]
        IN  /\ p[1] \in ModelNodes(m)
            /\ \E y \in 1..Len(dm.refs[p[1]]) : dm.refs[p[1]][y] = p[2]

\* the value of the last property of node i that has the name of its x-th
LastValue(i, x) ==
    LET same == {y \in 1..Len(props[i]) : props[i][y].name = props[i][x].name}
    IN  props[i][CHOOSE y \in same : \A z \in same : z <= y].value

RECURSIVE Walk(_)
RECURSIVE WalkAll(_)
\* the depth-first pre-order walk of the trees rooted in the nodes is
WalkAll(is) == IF is = <<>> THEN <<>> ELSE Walk(Head(is)) \o WalkAll(Tail(is))

Walk(i) == <<i>> \o WalkAll(Children(i))

\* the place of node j in the walk of its model
WalkPos(j) ==
    LET w == WalkAll(ModelRoots(dm.model[j]))
    IN  CHOOSE x \in 1..Len(w) : w[x] = j

RECURSIVE DmAncestors(_)
DmAncestors(j) == IF dm.parent[j] = 0 THEN {} ELSE {dm.parent[j]} \cup DmAncestors(dm.parent[j])

\* the nodes of its model that are in the node set when the references of
\* node i are processed: those walked up to i, and the descendants of i
VisibleAt(i) ==
    {j \in ModelNodes(dm.model[i]) : WalkPos(j) <= WalkPos(i) \/ i \in DmAncestors(j)}

\* a node with join key t is in the node set when node i's references are
\* processed
FoundAt(i, t) == \E j \in VisibleAt(i) : KbNode(j).alef_id = t

\* model m holds a references_to relationship from node i to a node with
\* join key t
ImmediateEdge(m, i, t) ==
    \E r \in kb[m].rels : r[1] = "references_to" /\ r[2].obj = i /\ r[3].alef_id = t

\* how many entries of the pending list of model m are <<i, to>>
PendingEntries(m, i, to) ==
    Cardinality({x \in 1..Len(kb[m].reference_list) : kb[m].reference_list[x] = <<i, to>>})

-----------------------------------------------------------------------------
(* C17 *)

-----------------------------------------------------------------------------
(* C19 *)

\* C19: every graph node of every model carries as alef_id the identifier of
\* the decision node it was built from, whatever properties that node has.
C19_JoinKeyIsStableId ==
    \A m \in Models : \A nd \in kb[m].nodes : nd.alef_id = NodeId(nd.obj)

-----------------------------------------------------------------------------
(* C20 *)

\* C20: in a built model every reference of every node has one outcome. When
\* a graph node with the normalized target as join key was in the model's
\* node set at the time the reference was processed, the model holds the
\* references_to relationship and no pending entry for the reference;
\* otherwise it holds no such relationship and one pending entry per such
\* reference. The pending list has no other entry, and the model is built
\* whatever targets are missing: graph building raises only for a reference
\* that carries no target identifier at all.
C20_OneOutcomePerReference ==
    /\ \A m \in Models :
          kb[m].built =>
              /\ \A i \in ModelNodes(m) : \A x \in 1..Len(dm.refs[i]) :
                    LET to == dm.refs[i][x]
                        t == DecisionReferenceId(to)
                    IN  IF FoundAt(i, t)
                        THEN ImmediateEdge(m, i, t) /\ PendingEntries(m, i, to) = 0
                        ELSE /\ ~ImmediateEdge(m, i, t)
                             /\ PendingEntries(m, i, to) =
                                   Cardinality({y \in 1..Len(dm.refs[i]) : dm.refs[i][y] = to})
              /\ Len(kb[m].reference_list) =
                    Cardinality({p \in ModelNodes(m) \X (1..MaxRefs) :
                                    /\ p[2] <= Len(dm.refs[p[1]])
                                    /\ ~FoundAt(p[1], DecisionReferenceId(dm.refs[p[1]][p[2]]))})
    /\ pc = "merge" => \A m \in Models : kb[m].built
    /\ pc = "build_raised" =>
          \E i \in DmNodes : \E x \in 1..Len(dm.refs[i]) : IdRaises(dm.refs[i][x])

\* one node with a reference resolved at once and a reference to a node
\* built later in the same model, which is pending
C20_Witness ==
    \E m \in Models :
        /\ kb[m].built
        /\ \E i, j, k \in ModelNodes(m) :
              /\ ImmediateEdge(m, i, NodeId(j))
              /\ ~FoundAt(i, NodeId(k))
              /\ PendingEntries(m, i, NodeId(k)) = 1

-----------------------------------------------------------------------------
(* C21 *)

\* the target a <ref> element stands for: the value of its attribute node
\* when it carries one, else the value of its attribute to
PointerOf(r) == IF r.node # NoId THEN r.node ELSE r.to

\* C21: every reference of every DecisionNode parse_nodes returns has as
\* target the direct pointer (attribute node) of its <ref> element when the
\* element carries one, also when it carries the resolve pointer (attribute
\* to) as well; the resolve pointer is the target only when there is no
\* direct pointer.
C21_DirectPointerFirst ==
    pc \in {"nodes_done", "read"} =>
        \A nd \in AllNodes(parsed.nodes) : \A i \in 1..xml.n :
            nd.id = NodeId(i) =>
                /\ Len(nd.references) = Len(xml.elem[i].refs)
                /\ \A x \in 1..Len(nd.references) :
                      /\ nd.references[x].to = PointerOf(xml.elem[i].refs[x])
                      /\ xml.elem[i].refs[x].node # NoId =>
                            nd.references[x].to = xml.elem[i].refs[x].node

\* a parsed node with one reference read from a <ref> with both pointers and
\* one read from a <ref> with the resolve pointer only
C21_Witness ==
    /\ pc = "nodes_done"
    /\ \E nd \in AllNodes(parsed.nodes) : \E i \in 1..xml.n :
          /\ nd.id = NodeId(i)
          /\ Len(nd.references) = 2
          /\ xml.elem[i].refs[1].node # NoId /\ xml.elem[i].refs[1].to # NoId
          /\ nd.references[1].to = xml.elem[i].refs[1].node
          /\ xml.elem[i].refs[2].node = NoId
          /\ nd.references[2].to = xml.elem[i].refs[2].to

-----------------------------------------------------------------------------
(* C22 *)

\* C22: after create_references has run, a pending reference has its
\* references_to edge in the store exactly when its normalized target is the
\* join key of a node built in one of the models of the unit of work,
\* whatever nodes an earlier run has left in the store.
C22_ResolvedAgainstUnitOnly ==
    Len(calls) >= 1 =>
        \A p \in PendingPairs :
            BagIn(RefEdge(p[1], DecisionReferenceId(p[2])), graph.rels)
                <=> DecisionReferenceId(p[2]) \in BuiltIds

-----------------------------------------------------------------------------
(* C29 *)

\* C29: no step taken while the models are built writes to the store, and
\* the build of a model can only end in an exception from there; so when
\* graph building raises, the store is what it was when
\* from_decision_method was called, and nothing is written afterwards.
C29_FailedBuildLeavesStore ==
    [][/\ pc = "build" => graph' = graph
       /\ pc' = "build_raised" => pc = "build"
       /\ pc = "build_raised" => graph' = graph]_vars

\* the third model raises after two models with nodes, one of them with a
\* has_child relationship, have been built; the store holds nothing of them
C29_Witness ==
    /\ pc = "build_raised"
    /\ kb[1].built /\ kb[1].rels # {}
    /\ kb[2].built /\ kb[2].nodes # {}
    /\ ~kb[3].built
    /\ graph.rels = EmptyBag
    /\ graph.nodes \cap BuiltIds = {}

-----------------------------------------------------------------------------
(* C23 *)

\* the nodes, relationships and pending entries of model m are made of the
\* decision nodes of m and of their references only
OnlyOwnTree(m) ==
    /\ \A nd \in kb[m].nodes : nd.obj \in ModelNodes(m)
    /\ \A r \in kb[m].rels : r[2].obj \in ModelNodes(m) /\ r[3].obj \in ModelNodes(m)
    /\ PendingOnlyReferences(m)

\* C23: in whatever order the models are built, and however the builds of
\* their roots interleave, every model holds at every moment what building
\* its roots so far on its own gives (nodes, relationships and pending list
\* alike), made of its own tree only; once built, it is the model the
\* sequential from_decision_model gives.
C23_OrderIndependent ==
    \A m \in Models :
        LET alone == CreateRoots(EmptyKbModel,
                                 SubSeq(ModelRoots(m), 1, Len(kb[m].root_nodes)))
        IN  /\ kb[m].nodes = alone.nodes
            /\ kb[m].rels = alone.rels
            /\ kb[m].reference_list = alone.reference_list
            /\ OnlyOwnTree(m)
            /\ kb[m].built => kb[m] = FromDecisionModel(m)

\* the second model is built, with a reference to a node of the first model
\* pending, while the first model has one of its two roots
C23_Witness ==
    /\ kb[2].built
    /\ ~kb[1].built
    /\ Len(ModelRoots(1)) = 2
    /\ Len(kb[1].root_nodes) = 1
    /\ \E j \in ModelNodes(1) : \E x \in 1..Len(kb[2].reference_list) :
          /\ DecisionReferenceId(kb[2].reference_list[x][2]) = NodeId(j)
          /\ \E nd \in kb[1].nodes : nd.obj = j

-----------------------------------------------------------------------------
(* C24 *)

\* C24: once the index is built, every declared slot maps to the concept
\* that declares it, and the slots the index associates with that concept,
\* for the kind of the slot, include the slot: all the slots of a concept,
\* not one of them.
C24_BothDirections ==
    pc = "parsed" =>
        \A el \in SlotElems(meta) :
            LET e == [l |-> el.l, c |-> el.c]
                kind == SlotDeclOf(meta, el).kind
            IN  /\ el \in DOMAIN library.concept[kind]
                /\ library.concept[kind][el] = e
                /\ el \in SlotsOfConcept(library, kind, e)

-----------------------------------------------------------------------------
(* C25 *)

\* every slot the catalog of a kind returns, under a name, an identifier or
\* a positional index, is declared with that kind
CatalogHoldsOnly(kind) ==
    LET cat == Catalog(library, kind)
    IN  /\ \A k \in DOMAIN cat.name : SlotDeclOf(meta, cat.name[k]).kind = kind
        /\ \A k \in DOMAIN cat.id : SlotDeclOf(meta, cat.id[k]).kind = kind
        /\ \A k \in DOMAIN cat.index : SlotDeclOf(meta, cat.index[k]).kind = kind

\* C25: once the index is built, each of the three catalogs returns slots of
\* its own kind only; so the role of every DecisionNode that is no root is a
\* child slot, and every property of a DecisionNode is named by a property
\* slot.
C25_SeparateCatalogs ==
    pc # "parse" =>
        /\ \A x \in 1..Len(Kinds) : CatalogHoldsOnly(Kinds[x])
        /\ \A nd \in AllNodes(parsed.nodes) :
              /\ nd.role_xml # RootMarker => SlotDeclOf(meta, nd.role_xml).kind = "child"
              /\ \A x \in 1..Len(nd.properties) :
                    SlotDeclOf(meta, Catalog(library, "property").index[nd.properties[x].role]).kind
                        = "property"

-----------------------------------------------------------------------------
(* C26 *)

RECURSIVE Occurrences(_, _)
\* how many DecisionNodes of a list of trees, descendants included, carry
\* the identifier id
Occurrences(trees, id) ==
    IF trees = <<>> THEN 0
    ELSE (IF Head(trees).id = id THEN 1 ELSE 0)
         + Occurrences(Head(trees).children, id)
         + Occurrences(Tail(trees), id)

\* C26: in the forest parse_nodes returns, with or without root_concept,
\* every element the parser reads is one DecisionNode and no other element
\* is any; every DecisionNode has one declared concept; and no root is also
\* a descendant of a root.
C26_OneNodePerElement ==
    pc \in {"nodes_done", "read"} =>
        /\ \A i \in 1..xml.n :
              Occurrences(parsed.nodes, NodeId(i)) = IF i \in Visited THEN 1 ELSE 0
        /\ \A nd \in AllNodes(parsed.nodes) : nd.concept_xml \in ConceptElems(meta)
        /\ \A x, y \in 1..Len(parsed.nodes) :
              Occurrences(parsed.nodes[y].children, parsed.nodes[x].id) = 0

-----------------------------------------------------------------------------
(* C27 *)

\* the nodes of the model of node i whose graph node has the join key t and
\* is there before the references of i are processed: i itself, its
\* descendants, and the nodes that precede i in the pre-order walk
TargetsBefore(i, t) ==
    {j \in ModelNodes(dm.model[i]) :
        /\ KbNode(j).alef_id = t
        /\ j = i \/ i \in DmAncestors(j) \/ WalkPos(j) < WalkPos(i)}

\* the nodes with join key t that the walk reaches after node i and that
\* are no descendants of i
TargetsAfter(i, t) ==
    {j \in ModelNodes(dm.model[i]) :
        /\ KbNode(j).alef_id = t
        /\ WalkPos(j) > WalkPos(i)
        /\ i \notin DmAncestors(j)}

\* C27: in a built model a reference of node i has its references_to
\* relationship exactly when its target is i, a descendant of i or a node
\* that precedes i in the depth-first pre-order walk of the model, and the
\* relationship ends in such a node; a reference whose target is only
\* reached later in the walk, or is no node of the model, is on the pending
\* list and has no relationship.
C27_ResolvedIffWalkedBefore ==
    \A m \in Models :
        kb[m].built =>
            \A i \in ModelNodes(m) : \A x \in 1..Len(dm.refs[i]) :
                LET to == dm.refs[i][x]
                    t == DecisionReferenceId(to)
                IN  /\ TargetsBefore(i, t) # {} <=>
                          \E r \in kb[m].rels :
                              /\ r[1] = "references_to"
                              /\ r[2].obj = i
                              /\ r[3].obj \in TargetsBefore(i, t)
                    /\ TargetsBefore(i, t) = {} <=> PendingEntries(m, i, to) >= 1
                    /\ TargetsBefore(i, t) = {} =>
                          \A r \in kb[m].rels :
                              (r[1] = "references_to" /\ r[2].obj = i) => r[3].alef_id # t

\* a root that references its own child, resolved at once, and the root
\* that follows it in the model, pending
C27_Witness ==
    \E m \in Models :
        /\ kb[m].built
        /\ \E i, j, k \in ModelNodes(m) :
              /\ dm.parent[j] = i
              /\ \E r \in kb[m].rels : r[1] = "references_to" /\ r[2].obj = i /\ r[3].obj = j
              /\ k \in TargetsAfter(i, NodeId(k))
              /\ TargetsBefore(i, NodeId(k)) = {}
              /\ \E x \in 1..Len(kb[m].reference_list) :
                    /\ kb[m].reference_list[x][1] = i
                    /\ DecisionReferenceId(kb[m].reference_list[x][2]) = NodeId(k)

-----------------------------------------------------------------------------
(* C28 *)

\* decision node i carries a reference whose normalized target is t
RefersTo(i, t) == \E x \in 1..Len(dm.refs[i]) : DecisionReferenceId(dm.refs[i][x]) = t

-----------------------------------------------------------------------------
(* C30 *)

\* C30: a call of create_references leaves the nodes of the store, their
\* labels and properties and every relationship already there as they are,
\* adds references_to relationships only, each between two nodes of the
\* store, and changes neither the decision method (the parsed trees, their
\* properties) nor the concept index nor the models built from them.
C30_OnlyAddsReferences ==
    [][(calls' # calls) =>
          /\ graph'.nodes = graph.nodes
          /\ graph'.data = graph.data
          /\ \A e \in BagToSet(graph.rels) : CopiesIn(e, graph'.rels) = CopiesIn(e, graph.rels)
          /\ \A e \in BagToSet(graph'.rels) :
                ~BagIn(e, graph.rels) =>
                    /\ e[1] = "references_to"
                    /\ e[2] \in graph.nodes /\ e[3] \in graph.nodes
                    /\ CopiesIn(e, graph'.rels) = 1
          /\ dm' = dm /\ props' = props /\ kb' = kb
          /\ meta' = meta /\ library' = library /\ xml' = xml /\ parsed' = parsed]_vars

\* create_references has added a relationship to a store that held nodes
\* with labels and properties, a has_child and a references_to relationship
\* before, and has left a pending reference unresolved
C30_Witness ==
    /\ Len(calls) = 1
    /\ \E k \in graph.nodes : "A" \in graph.data[k].labels /\ "role" \in DOMAIN graph.data[k].attrs
    /\ \E e \in BagToSet(graph.rels) : e[1] = "has_child"
    /\ \E p, q \in PendingPairs :
          /\ BagIn(RefEdge(p[1], DecisionReferenceId(p[2])), graph.rels)
          /\ DecisionReferenceId(q[2]) \notin graph.nodes

====
